---- MODULE Spec2Model ----
(***************************************************************************)
(* YConfParser: an indentation-structured configuration parser.            *)
(*                                                                         *)
(* A std::string is modelled as a sequence of one-character strings.       *)
(* Positions are 1-based; position 0 stands for std::string::npos.         *)
(* parseLine is a pure operator; parseFile is a state machine whose        *)
(* variables are the locals of parseFile (src/YConfParser.hpp:536-543).    *)
(***************************************************************************)
EXTENDS Integers, Sequences, FiniteSets, TLC

(***************************************************************************)
(* Bounds of the model.                                                    *)
(***************************************************************************)
\* number of lines getline delivers before end of file
MaxLines == 3
\* number of pieces concatenated into a scalar value token
MaxPieces == 2
\* number of elements of a bracketed array token
MaxElems == 3

(***************************************************************************)
(* Characters.                                                             *)
(***************************************************************************)
SP == " "
TAB == "\t"
QUOTE == "\""

\* the characters std::stoi / std::stof skip before the number (isspace)
IsSpaceChar(c) == c \in {SP, TAB}

Digits == {"0", "1", "2", "3", "4", "5", "6", "7", "8", "9"}

DigitVal(c) ==
    CASE c = "0" -> 0 [] c = "1" -> 1 [] c = "2" -> 2 [] c = "3" -> 3
      [] c = "4" -> 4 [] c = "5" -> 5 [] c = "6" -> 6 [] c = "7" -> 7
      [] c = "8" -> 8 [] c = "9" -> 9

\* the type_ enumeration
type_NO_VAL == "NO_VAL"
type_STRING == "STRING"
type_BOOLEAN == "BOOLEAN"
type_FLOAT == "FLOAT"
type_INTEGER == "INTEGER"

\* size_t arithmetic wraps modulo 2^64; the model only compares wrapped
\* results with string lengths, so any modulus above every length of the
\* model gives the same comparisons (TLC integers are 32 bits wide).
SizeMod == 2 ^ 30

SizeSub(a, b) == (a - b + SizeMod) % SizeMod

Min(a, b) == IF a <= b THEN a ELSE b

(***************************************************************************)
(* std::string members used by the parser.                                 *)
(***************************************************************************)
\* s.substr(pos) with 0-based pos: the characters from pos to the end
SubstrFrom(s, pos) == SubSeq(s, pos + 1, Len(s))

\* s.substr(0, count): at most count characters from the start
SubstrTo(s, count) == SubSeq(s, 1, Min(count, Len(s)))

\* s.find_first_not_of(c): 1-based position, 0 when there is none
FindFirstNotOf(s, c) ==
    IF \E i \in 1..Len(s) : s[i] # c
    THEN CHOOSE i \in 1..Len(s) : s[i] # c /\ \A j \in 1..(i - 1) : s[j] = c
    ELSE 0

\* s.find_last_not_of(c): 1-based position, 0 when there is none
FindLastNotOf(s, c) ==
    IF \E i \in 1..Len(s) : s[i] # c
    THEN CHOOSE i \in 1..Len(s) : s[i] # c /\ \A j \in (i + 1)..Len(s) : s[j] = c
    ELSE 0

\* s.find(c): 1-based position of the first c, 0 when there is none
FindChar(s, c) ==
    IF \E i \in 1..Len(s) : s[i] = c
    THEN CHOOSE i \in 1..Len(s) : s[i] = c /\ \A j \in 1..(i - 1) : s[j] # c
    ELSE 0

\* s.find(sub) != npos
Contains(s, sub) ==
    \E i \in 1..(Len(s) - Len(sub) + 1) : SubSeq(s, i, i + Len(sub) - 1) = sub

(***************************************************************************)
(* Trimming helpers.                                                       *)
(***************************************************************************)
\* n==std::string::npos? "" : w_string.substr(n), n given 1-based
SubstrOrEmpty(w_string, n) ==
    IF n = 0 THEN <<>> ELSE SubstrFrom(w_string, n - 1)

\* n==std::string::npos? "" : w_string.substr(0,n+1), n given 1-based
PrefixOrEmpty(w_string, n) ==
    IF n = 0 THEN <<>> ELSE SubstrTo(w_string, n)

trimmLeadingSpaces(w_string) ==
    IF w_string = <<>> THEN <<>>
    ELSE SubstrOrEmpty(w_string, FindFirstNotOf(w_string, SP))

trimmLeadingTabs(w_string) ==
    IF w_string = <<>> THEN <<>>
    ELSE SubstrOrEmpty(w_string, FindFirstNotOf(w_string, TAB))

trimmTrailingSpaces(w_string) ==
    IF w_string = <<>> THEN <<>>
    ELSE PrefixOrEmpty(w_string, FindLastNotOf(w_string, SP))

trimmWhiteSpaces(w_string) == trimmTrailingSpaces(trimmLeadingSpaces(w_string))

(***************************************************************************)
(* std::stof and std::stoi.  Both skip leading isspace characters, accept  *)
(* an optional sign and convert the longest prefix that is a number; they  *)
(* throw when there is no digit to convert or the result is out of range.  *)
(* The model covers the characters sign, digit, dot and white space: any   *)
(* other character ends the number (exponents, hexadecimal, inf and nan    *)
(* need letters that no token of the model puts in front of a number       *)
(* parser).                                                                *)
(***************************************************************************)
INT_MAX == 2147483647

\* position of the first character at or after i that is not isspace
RECURSIVE SkipSpace(_, _)
SkipSpace(s, i) ==
    IF i <= Len(s) /\ IsSpaceChar(s[i]) THEN SkipSpace(s, i + 1) ELSE i

\* number of consecutive digits of s starting at position i
RECURSIVE DigitRun(_, _)
DigitRun(s, i) ==
    IF i <= Len(s) /\ s[i] \in Digits THEN 1 + DigitRun(s, i + 1) ELSE 0

\* value of a digit sequence
RECURSIVE DecValue(_)
DecValue(ds) ==
    IF ds = <<>> THEN 0
    ELSE 10 * DecValue(SubSeq(ds, 1, Len(ds) - 1)) + DigitVal(ds[Len(ds)])

\* value of a digit sequence, or -1 once it exceeds INT_MAX
RECURSIVE IntMagnitude(_)
IntMagnitude(ds) ==
    IF ds = <<>> THEN 0
    ELSE LET hi == IntMagnitude(SubSeq(ds, 1, Len(ds) - 1))
             d  == DigitVal(ds[Len(ds)])
         IN  IF hi = -1 \/ hi > (INT_MAX - d) \div 10 THEN -1 ELSE 10 * hi + d

\* a decimal fraction num / 10^scale without trailing zeros of the fraction
RECURSIVE Normalise(_, _)
Normalise(num, scale) ==
    IF scale > 0 /\ num % 10 = 0 THEN Normalise(num \div 10, scale - 1)
    ELSE [num |-> num, scale |-> scale]

\* the float 0.0 that fills a fresh element of floatVals
FloatZero == [neg |-> FALSE, num |-> 0, scale |-> 0]

\* a sign character at position i
SignAt(s, i) == i <= Len(s) /\ s[i] \in {"+", "-"}

\* the result of stof: the digits whole and frac around the decimal point
stofValue(neg, whole, frac) ==
    IF Len(whole) + Len(frac) = 0 THEN [ok |-> FALSE, val |-> FloatZero]
    ELSE [ok  |-> TRUE,
          val |-> [neg   |-> neg,
                   num   |-> Normalise(DecValue(whole \o frac), Len(frac)).num,
                   scale |-> Normalise(DecValue(whole \o frac), Len(frac)).scale]]

\* stof with the d1 digits in front of the decimal point found at i1
stofDigits(s, neg, i1, d1) ==
    stofValue(neg,
              SubSeq(s, i1, i1 + d1 - 1),
              IF i1 + d1 <= Len(s) /\ s[i1 + d1] = "."
              THEN SubSeq(s, i1 + d1 + 1, i1 + d1 + DigitRun(s, i1 + d1 + 1))
              ELSE <<>>)

\* stof with the leading white space skipped up to i0
stofFrom(s, i0) ==
    stofDigits(s,
               SignAt(s, i0) /\ s[i0] = "-",
               IF SignAt(s, i0) THEN i0 + 1 ELSE i0,
               DigitRun(s, IF SignAt(s, i0) THEN i0 + 1 ELSE i0))

\* std::stof(s): ok is FALSE where stof throws
stof(s) == stofFrom(s, SkipSpace(s, 1))

\* the result of stoi: the digits ds and their magnitude mag
stoiValue(neg, ds, mag) ==
    IF ds = <<>> THEN [ok |-> FALSE, val |-> 0]
    ELSE IF mag # -1 THEN [ok |-> TRUE, val |-> IF neg THEN 0 - mag ELSE mag]
    ELSE IF /\ neg
            /\ IntMagnitude(SubSeq(ds, 1, Len(ds) - 1)) = INT_MAX \div 10
            /\ ds[Len(ds)] = "8"
         THEN [ok |-> TRUE, val |-> (0 - INT_MAX) - 1]
         ELSE [ok |-> FALSE, val |-> 0]

\* stoi with the digits ds behind the sign
stoiDigits(neg, ds) == stoiValue(neg, ds, IntMagnitude(ds))

\* stoi with the leading white space skipped up to i0
stoiFrom(s, i0) ==
    stoiDigits(SignAt(s, i0) /\ s[i0] = "-",
               IF SignAt(s, i0)
               THEN SubSeq(s, i0 + 1, i0 + DigitRun(s, i0 + 1))
               ELSE SubSeq(s, i0, i0 + DigitRun(s, i0) - 1))

\* std::stoi(s): ok is FALSE where stoi throws
stoi(s) == stoiFrom(s, SkipSpace(s, 1))

(***************************************************************************)
(* The four scalar parsers.  Each returns ok (the C++ return value) and    *)
(* val (what it stores through w_val when ok).                             *)
(***************************************************************************)
\* parseAsString with the size test off by one
parseAsString_size3(w_string) ==
    IF /\ w_string # <<>>
       /\ w_string[1] = QUOTE
       /\ Len(w_string) > 3
       /\ w_string[Len(w_string)] = QUOTE
    THEN [ok |-> TRUE, val |-> SubSeq(w_string, 2, Len(w_string) - 1)]
    ELSE [ok |-> FALSE, val |-> <<>>]

\* w_string[0] of an empty std::string is the terminating '\0'
parseAsString(w_string) ==
    IF /\ w_string # <<>>
       /\ w_string[1] = QUOTE
       /\ Len(w_string) > 2
       /\ w_string[Len(w_string)] = QUOTE
    THEN [ok |-> TRUE, val |-> SubSeq(w_string, 2, Len(w_string) - 1)]
    ELSE [ok |-> FALSE, val |-> <<>>]

\* parseAsBoolean with the two searches in the other order
parseAsBoolean_falseFirst(w_string) ==
    IF Contains(w_string, <<"F", "A", "L", "S", "E">>)
    THEN [ok |-> TRUE, val |-> FALSE]
    ELSE IF Contains(w_string, <<"T", "R", "U", "E">>)
         THEN [ok |-> TRUE, val |-> TRUE]
         ELSE [ok |-> FALSE, val |-> FALSE]

parseAsBoolean(w_string) ==
    IF Contains(w_string, <<"T", "R", "U", "E">>)
    THEN [ok |-> TRUE, val |-> TRUE]
    ELSE IF Contains(w_string, <<"F", "A", "L", "S", "E">>)
         THEN [ok |-> TRUE, val |-> FALSE]
         ELSE [ok |-> FALSE, val |-> FALSE]

parseAsFloat(w_string) ==
    IF Contains(w_string, <<".">>)
    THEN stof(w_string)
    ELSE [ok |-> FALSE, val |-> FloatZero]

parseAsInteger(w_string) ==
    IF Contains(w_string, <<".">>)
    THEN stoi(w_string)
    ELSE [ok |-> FALSE, val |-> 0]

(***************************************************************************)
(* config_struct and parseLine.                                            *)
(***************************************************************************)
\* config_struct_(): type NO_VAL, empty raw string, four empty vectors
config_struct ==
    [type      |-> type_NO_VAL,
     rawString |-> <<>>,
     stringVal |-> <<>>,
     boolVal   |-> <<>>,
     floatVal  |-> <<>>,
     intVal    |-> <<>>]

\* v.back() = x
SetBack(v, x) == [v EXCEPT ![Len(v)] = x]

\* v.pop_back()
PopBack(v) == SubSeq(v, 1, Len(v) - 1)

\* the locals of the value parser: four vectors of one default element,
\* the remaining element text and the element type of the array loop
ArrayLocals(elements) ==
    [elements    |-> elements,
     type        |-> type_NO_VAL,
     elementType |-> type_NO_VAL,
     stringVals  |-> << <<>> >>,
     boolVals    |-> <<FALSE>>,
     floatVals   |-> <<FloatZero>>,
     intVals     |-> <<0>>]

\* the if / else-if chain that types one array element, on the results
\* s, b, f, i of the four parsers; known is FALSE on the "Unknown type"
\* branch
classifyAs(st, s, b, f, i) ==
    IF s.ok
    THEN [known |-> TRUE,
          st |-> [st EXCEPT !.elementType = type_STRING,
                            !.stringVals = Append(SetBack(@, s.val), <<>>)]]
    ELSE IF b.ok
    THEN [known |-> TRUE,
          st |-> [st EXCEPT !.elementType = type_BOOLEAN,
                            !.boolVals = Append(SetBack(@, b.val), FALSE)]]
    ELSE IF f.ok
    THEN [known |-> TRUE,
          st |-> [st EXCEPT !.elementType = type_FLOAT,
                            !.floatVals = Append(SetBack(@, f.val), FloatZero)]]
    ELSE IF i.ok
    THEN [known |-> TRUE,
          st |-> [st EXCEPT !.elementType = type_INTEGER,
                            !.intVals = Append(SetBack(@, i.val), 0)]]
    ELSE [known |-> FALSE, st |-> st]

\* classifyElement that keeps an element of unknown type as a string
classifyElement_defaultString(st, element) ==
    classifyAs(st, [ok |-> TRUE, val |-> element], parseAsBoolean(element),
               parseAsFloat(element), parseAsInteger(element))

\* the four parsers applied to one array element, in the order of the chain
classifyElement(st, element) ==
    classifyAs(st, parseAsString(element), parseAsBoolean(element),
               parseAsFloat(element), parseAsInteger(element))

RECURSIVE arrayLoop(_)

\* the rest of an iteration once the element is typed: the locals typed
\* hold the array type; leave on a mismatch or after the last element,
\* else go on with the text behind the comma at n
arrayTyped(st, n, typed) ==
    IF typed.type # typed.elementType THEN typed
    ELSE IF n = 0 THEN typed
    ELSE IF n >= Len(st.elements) THEN typed
    ELSE arrayLoop([typed EXCEPT
             !.elements = trimmWhiteSpaces(SubstrFrom(st.elements, n))])

\* the iteration after the element type chain, c being its result: leave
\* on an unknown type, set the array type when it is not set
arrayClassified(st, n, c) ==
    IF ~c.known THEN st
    ELSE arrayTyped(st, n,
                    IF c.st.type = type_NO_VAL
                    THEN [c.st EXCEPT !.type = c.st.elementType]
                    ELSE c.st)

\* one iteration, n being the position of the first comma of st.elements
arrayStep(st, n) ==
    arrayClassified(st, n,
        classifyElement(st, trimmWhiteSpaces(IF n = 0 THEN st.elements
                                             ELSE SubstrTo(st.elements, n - 1))))

\* the while(true) loop over the comma-separated elements; the result is
\* the locals when the loop is left
arrayLoop(st) == arrayStep(st, FindChar(st.elements, ","))

\* "Copy parsed array elements": the switch on elementType
copyArray(second, st) ==
    IF st.elementType = type_NO_VAL THEN [second EXCEPT !.type = st.type]
    ELSE IF st.elementType = type_STRING
    THEN [second EXCEPT !.type = st.type, !.stringVal = PopBack(st.stringVals)]
    ELSE IF st.elementType = type_BOOLEAN
    THEN [second EXCEPT !.type = st.type, !.boolVal = PopBack(st.boolVals)]
    ELSE IF st.elementType = type_FLOAT
    THEN [second EXCEPT !.type = st.type, !.floatVal = PopBack(st.floatVals)]
    ELSE [second EXCEPT !.type = st.type, !.intVal = PopBack(st.intVals)]

\* the branch of a value enclosed in square brackets
parseArray(second, valString) ==
    IF Len(valString) < 3 THEN second
    ELSE copyArray(second,
                   arrayLoop(ArrayLocals(SubSeq(valString, 2, Len(valString) - 1))))

\* the if / else-if chain on valString, on the results s, b, f, i of the
\* four parsers (each is called only when the tests before it fail, and
\* none has a side effect when it fails)
valueOf(second, valString, s, b, f, i) ==
    IF valString = <<>> THEN second
    ELSE IF s.ok
    THEN [second EXCEPT !.type = type_STRING, !.stringVal = <<s.val>>]
    ELSE IF valString[1] = "[" /\ valString[Len(valString)] = "]"
    THEN parseArray(second, valString)
    ELSE IF b.ok
    THEN [second EXCEPT !.type = type_BOOLEAN, !.boolVal = <<b.val>>]
    ELSE IF f.ok
    THEN [second EXCEPT !.type = type_FLOAT, !.floatVal = <<f.val>>]
    ELSE IF i.ok
    THEN [second EXCEPT !.type = type_INTEGER, !.intVal = <<i.val>>]
    ELSE second

\* "Parse value": pvPair.second for the value text valString
parseValue(valString) ==
    valueOf([config_struct EXCEPT !.rawString = valString], valString,
            parseAsString(valString), parseAsBoolean(valString),
            parseAsFloat(valString), parseAsInteger(valString))

\* return pvPair with its default values and the padding p
rejected(p) == [first |-> <<>>, second |-> config_struct, w_padding |-> p]

\* the mixed-indentation test that is never met
mixedIndent_never(trimmed) == FALSE

\* "Mixing of TAB(s) and white space(s) is not allowed": a space follows
\* the stripped spaces and tabs
mixedIndent(trimmed) == trimmed[1] = SP

\* the comment test that is never met
isComment_never(trimmed) == FALSE

\* "Check if it is a comment"
isComment(trimmed) == trimmed[1] = "#"

\* parseLine from the name paramString and the value text valString on
parseNameValue(padding, paramString, valString) ==
    IF paramString = <<>> THEN rejected(padding)
    ELSE [first     |-> paramString,
          second    |-> parseValue(valString),
          w_padding |-> padding]

\* parseLine from the position n of the first colon on
parseColon(padding, trimmed, n) ==
    IF n = 0 \/ n = 1 THEN rejected(padding)
    ELSE parseNameValue(padding,
                        trimmWhiteSpaces(SubstrTo(trimmed, n - 1)),
                        trimmWhiteSpaces(SubstrFrom(trimmed, n)))

\* parseLine from the text trimmed of leading spaces and tabs on
parseTrimmed(padding, trimmed) ==
    IF trimmed = <<>> THEN rejected(padding)
    ELSE IF mixedIndent(trimmed) THEN rejected(padding)
    ELSE IF isComment(trimmed) THEN rejected(padding)
    ELSE parseColon(padding, trimmed, FindChar(trimmed, ":"))

\* the indentation is stripped: first the spaces, then the tabs
stripIndent(w_line, trimmed) == parseTrimmed(Len(w_line) - Len(trimmed), trimmed)

\* parseLine: first and second are the returned pair, w_padding the
\* reference parameter
parseLine(w_line) ==
    IF w_line = <<>> THEN rejected(0)
    ELSE stripIndent(w_line, trimmLeadingTabs(trimmLeadingSpaces(w_line)))

(***************************************************************************)
(* Input lines.                                                            *)
(***************************************************************************)
\* n space characters
Spaces(n) == [i \in 1..n |-> SP]

\* deepest indentation, in spaces, of the lines of a document
MaxDepth == 2

\* longest leading white-space run of the lines of the one-line documents
MaxIndent == 2

\* name-value bodies that build the hierarchy: two names, two values,
\* one field without a value
HierBodies ==
    { <<"a", ":", " ", "1", ".", "5">>,
      <<"b", "b", ":", " ", "T", "R", "U", "E">>,
      <<"b", "b", ":", " ", "1", ".", "5">>,
      <<"a", ":">> }

\* lines with tab and mixed indentation
TabLines ==
    { <<TAB, "a", ":", " ", "1", ".", "5">>,
      <<SP, TAB, "a", ":", " ", "1", ".", "5">>,
      <<TAB, SP, "a", ":", " ", "1", ".", "5">>,
      <<SP, TAB, SP, "a", ":", " ", "1", ".", "5">> }

\* empty, white-space-only, comment, colon-less and colon-first lines, an
\* empty array and a number without a decimal point
OtherLines ==
    { <<>>,
      <<SP>>,
      <<"#", "a", ":", " ", "1", ".", "5">>,
      <<SP, "#", "a", ":", " ", "1", ".", "5">>,
      <<"a">>,
      <<":", "1", ".", "5">>,
      <<SP, ":", "1", ".", "5">>,
      <<SP, "a", ":", " ", "[", "]">>,
      <<SP, "a", ":", " ", "1", "2">> }

\* the lines a document is made of
DocLines ==
    {Spaces(n) \o b : n \in 0..MaxDepth, b \in HierBodies}
        \cup TabLines \cup OtherLines

\* the pieces a scalar value token is concatenated from
Pieces ==
    { <<QUOTE>>, <<"[">>, <<"]">>, <<",">>, <<".">>, <<":">>, <<SP>>, <<TAB>>,
      <<"x">>, <<"1">>, <<"1", "2">>, <<"1", ".", "5">>,
      <<"T", "R", "U", "E">>, <<"F", "A", "L", "S", "E">> }

\* concatenations of at most k pieces
RECURSIVE Concats(_)
Concats(k) ==
    IF k = 0 THEN {<<>>}
    ELSE LET shorter == Concats(k - 1)
         IN  shorter \cup {c \o p : c \in shorter, p \in Pieces}

ScalarTokens == Concats(MaxPieces)

\* the same texts enclosed in double quotes
QuotedTokens == {<<QUOTE>> \o t \o <<QUOTE>> : t \in ScalarTokens}

\* the texts of array elements
ElemTokens ==
    { <<>>, <<"x">>, <<"1", "2">>, <<"1", ".", "5">>, <<SP, "2", ".", "5">>,
      <<"T", "R", "U", "E">>, <<"F", "A", "L", "S", "E">>,
      <<QUOTE, "s", QUOTE>> }

\* comma-separated lists of at most k elements
RECURSIVE ElemLists(_)
ElemLists(k) ==
    IF k = 0 THEN {<<>>}
    ELSE IF k = 1 THEN {<<>>} \cup ElemTokens
    ELSE LET shorter == ElemLists(k - 1)
         IN  shorter \cup {l \o <<",">> \o e : l \in shorter \ {<<>>}, e \in ElemTokens}

ArrayTokens == {<<"[">> \o l \o <<"]">> : l \in ElemLists(MaxElems)}

ValueTokens == ScalarTokens \cup QuotedTokens \cup ArrayTokens

\* leading white-space runs of at most k spaces and tabs
RECURSIVE Indents(_)
Indents(k) ==
    IF k = 0 THEN {<<>>}
    ELSE LET shorter == Indents(k - 1)
         IN  shorter \cup {i \o <<c>> : i \in shorter, c \in {SP, TAB}}

\* the first lines of the short documents: indentation, name, colon, value
LineInputs ==
    {i \o n \o t : i \in Indents(MaxIndent),
                   n \in {<<"a", ":">>, <<"a", " ", ":", " ">>},
                   t \in ValueTokens}

\* the lines that may follow the first line of a short document
FollowLines == { <<SP, "b", "b", ":", " ", "1", ".", "5">> }

(***************************************************************************)
(* parseFile.  The variables are its locals; pc is the position in the     *)
(* function, nread the number of lines getline has delivered, and          *)
(* backOnEmpty records that the last rewind evaluated                      *)
(* paddingHistory.back() on an empty vector.  seen is a history variable:  *)
(* of every line read so far to which parseLine gave a name, it holds the  *)
(* indentation, the name and whether parseLine typed a value.              *)
(***************************************************************************)
VARIABLES pc, nread, line, pvPair, currentPadding, fullParamName,
          paramLengths, paddingHistory, config, backOnEmpty, seen

vars == <<pc, nread, line, pvPair, currentPadding, fullParamName,
          paramLengths, paddingHistory, config, backOnEmpty, seen>>

\* what back() of an empty vector may read: the word in front of the
\* buffer, any size_t
Garbage == {0, 1, SizeMod - 1}

\* a rewind that empties the stack and lets the word read by back() of
\* the empty vector decide whether the name is kept
rewind_garbageDecides(history, lengths, name, w_padding, g) ==
    [paddingHistory |-> <<>>,
     paramLengths   |-> <<>>,
     fullParamName  |-> IF w_padding > g THEN name ELSE <<>>,
     backOnEmpty    |-> TRUE]

\* the "Rewind" loop: pops frames and cuts their characters off the name
\* until the vector is empty or the top padding is below w_padding
RECURSIVE rewind(_, _, _, _, _)
rewind(history, lengths, name, w_padding, g) ==
    IF Len(history) > 0
    THEN LET history2 == PopBack(history)
             name2    == SubstrTo(name, SizeSub(Len(name), lengths[Len(lengths)]))
             lengths2 == PopBack(lengths)
             top      == IF history2 = <<>> THEN g ELSE history2[Len(history2)]
         IN  IF w_padding > top
             THEN [paddingHistory |-> history2,
                   paramLengths   |-> lengths2,
                   fullParamName  |-> name2,
                   backOnEmpty    |-> history2 = <<>>]
             ELSE IF history2 = <<>>
                  THEN [paddingHistory |-> history2,
                        paramLengths   |-> lengths2,
                        fullParamName  |-> name2,
                        backOnEmpty    |-> TRUE]
                  ELSE rewind(history2, lengths2, name2, w_padding, g)
    ELSE [paddingHistory |-> history,
          paramLengths   |-> lengths,
          fullParamName  |-> name,
          backOnEmpty    |-> FALSE]

\* a loop body that rewinds only for a line indented strictly less than
\* the top frame
beforePush_strict(history, lengths, name, w_padding, g) ==
    IF history # <<>> /\ w_padding < history[Len(history)]
    THEN rewind(history, lengths, name, w_padding, g)
    ELSE [paddingHistory |-> history,
          paramLengths   |-> lengths,
          fullParamName  |-> name,
          backOnEmpty    |-> FALSE]

\* the part of the loop body before the push: rewind when the vector is
\* not empty and the line is not a sub-field of the top frame
beforePush(history, lengths, name, w_padding, g) ==
    IF history # <<>> /\ w_padding <= history[Len(history)]
    THEN rewind(history, lengths, name, w_padding, g)
    ELSE [paddingHistory |-> history,
          paramLengths   |-> lengths,
          fullParamName  |-> name,
          backOnEmpty    |-> FALSE]

\* "Ignore": the condition of the continue statement
ignored(pv) == pv.first = <<>> \/ pv.second.type = type_NO_VAL

\* an append that leaves the separating dot out
appendName_noDot(name, first) == name \o first

\* fullParamName += fullParamName.empty()? first : "." + first
appendName(name, first) ==
    IF name = <<>> THEN first ELSE name \o <<".">> \o first

\* insert with the semantics of operator[] assignment: the value is replaced
insert_overwrite(map, key, value) == (key :> value) @@ map

\* config.insert({key, value}): an existing key keeps its value
insert(map, key, value) ==
    IF key \in DOMAIN map THEN map ELSE (key :> value) @@ map

Init ==
    /\ pc = "open"
    /\ nread = 0
    /\ line = <<>>
    /\ pvPair = [first |-> <<>>, second |-> config_struct]
    /\ currentPadding = 0
    /\ fullParamName = <<>>
    /\ paramLengths = <<>>
    /\ paddingHistory = <<>>
    /\ config = <<>>
    /\ backOnEmpty = FALSE
    /\ seen = <<>>

\* the file is not open: the empty map is returned
OpenFails ==
    /\ pc = "open"
    /\ pc' = "done"
    /\ UNCHANGED <<nread, line, pvPair, currentPadding, fullParamName,
                   paramLengths, paddingHistory, config, backOnEmpty, seen>>

OpenOk ==
    /\ pc = "open"
    /\ pc' = "loop"
    /\ UNCHANGED <<nread, line, pvPair, currentPadding, fullParamName,
                   paramLengths, paddingHistory, config, backOnEmpty, seen>>

\* the push and the insert of an accepted line: b is the stack and path
\* the rewind has left, name the full name of the line
pushAndInsert(b, first, second, w_padding, name) ==
    /\ paddingHistory' = Append(b.paddingHistory, w_padding)
    /\ paramLengths' = Append(b.paramLengths, 1 + Len(first))
    /\ fullParamName' = name
    /\ backOnEmpty' = b.backOnEmpty
    /\ config' = IF second.type # type_NO_VAL
                 THEN insert(config, name, second)
                 ELSE config

\* the loop body behind an accepted line
accept(b, r) ==
    pushAndInsert(b, r.first, r.second, r.w_padding,
                  appendName(b.fullParamName, r.first))

\* the loop body on the line l, r being the result of parseLine
processLine(l, r) ==
    /\ line' = l
    /\ pvPair' = [first |-> r.first, second |-> r.second]
    /\ currentPadding' = r.w_padding
    /\ seen' = IF r.first = <<>>
               THEN seen
               ELSE Append(seen, [padding |-> r.w_padding,
                                  name    |-> r.first,
                                  valued  |-> r.second.type # type_NO_VAL])
    /\ IF ignored(r)
       THEN /\ backOnEmpty' = FALSE
            /\ UNCHANGED <<fullParamName, paramLengths, paddingHistory, config>>
       ELSE \E g \in Garbage :
              accept(beforePush(paddingHistory, paramLengths, fullParamName,
                                r.w_padding, g), r)

\* one iteration of the while(getline) loop on the line l
loopBody(l) == processLine(l, parseLine(l))

\* getline delivers a line of a document of at most MaxLines lines
ReadLine ==
    /\ pc = "loop"
    /\ nread < MaxLines
    /\ nread' = nread + 1
    /\ pc' = "loop"
    /\ \E l \in DocLines : loopBody(l)

\* getline delivers the first line of a short document
ReadFirstLine ==
    /\ pc = "loop"
    /\ nread = 0
    /\ nread' = nread + 1
    /\ pc' = "loop"
    /\ \E l \in LineInputs : loopBody(l)

\* getline delivers the second and last line of a short document
ReadFollowLine ==
    /\ pc = "loop"
    /\ nread = 1
    /\ nread' = nread + 1
    /\ pc' = "loop"
    /\ \E l \in FollowLines : loopBody(l)

\* getline fails: the loop is left and the map returned
EndOfFile ==
    /\ pc = "loop"
    /\ pc' = "done"
    /\ UNCHANGED <<nread, line, pvPair, currentPadding, fullParamName,
                   paramLengths, paddingHistory, config, backOnEmpty, seen>>

Next == OpenFails \/ OpenOk \/ ReadLine \/ EndOfFile

\* parseFile on documents of at most MaxLines lines of DocLines
Spec == Init /\ [][Next]_vars

LineNext == OpenFails \/ OpenOk \/ ReadFirstLine \/ ReadFollowLine \/ EndOfFile

\* parseFile on short documents: a first line with any value token of
\* ValueTokens, then at most one line of FollowLines
LineSpec == Init /\ [][LineNext]_vars

(***************************************************************************)
(* Vocabulary of the properties.                                           *)
(***************************************************************************)
\* a step of the loop that has read and processed one more line
ReadStep == pc = "loop" /\ pc' = "loop" /\ nread' = nread + 1

\* the last line read was accepted by parseFile
Accepted == nread > 0 /\ ~ignored(pvPair)

\* the last line read has a valid name and no typed value
Valueless == nread > 0 /\ pvPair.first # <<>> /\ pvPair.second.type = type_NO_VAL

EndsWith(s, t) == Len(t) <= Len(s) /\ SubSeq(s, Len(s) - Len(t) + 1, Len(s)) = t

\* the state parseFile carries from one line to the next
carried == <<paddingHistory, paramLengths, fullParamName, config>>

\* C1: a line with a valid name and no typed value creates no map entry
\* but is pushed as a path frame, so that a directly following line of
\* strictly greater indentation that carries a value is stored under a key
\* ending in <its name>.<the following line's name>.
C1_ValuelessLineIsAncestor ==
    [][ /\ (ReadStep /\ Valueless' => config' = config)
        /\ (ReadStep /\ Valueless /\ Accepted' /\ currentPadding' > currentPadding
              => /\ EndsWith(fullParamName', pvPair.first \o <<".">> \o pvPair'.first)
                 /\ fullParamName' \in DOMAIN config') ]_vars

\* C2: an accepted line whose indentation is at most that of every frame
\* on the stack pops every frame and empties the path before the push: it
\* is stored under its own name alone.
C2_RewindToTopLevel ==
    [][ ( /\ ReadStep
          /\ Accepted'
          /\ paddingHistory # <<>>
          /\ \A i \in 1..Len(paddingHistory) : currentPadding' <= paddingHistory[i] )
        => /\ paddingHistory' = <<currentPadding'>>
           /\ paramLengths' = <<1 + Len(pvPair'.first)>>
           /\ fullParamName' = pvPair'.first ]_vars

\* C5 as stated: after an accepted line the map holds that line's value
\* under the line's dotted path (the last write wins).
C5_LastWriteWins ==
    Accepted => /\ fullParamName \in DOMAIN config
                /\ config[fullParamName] = pvPair.second

\* C5 (amended): the first write wins: an accepted line leaves every entry
\* the map already holds as it is, and is stored only when its dotted path
\* is new.
C5_FirstWriteWins ==
    [][ ReadStep =>
          /\ \A k \in DOMAIN config : k \in DOMAIN config' /\ config'[k] = config[k]
          /\ (Accepted' => fullParamName' \in DOMAIN config')
          /\ (Accepted' /\ fullParamName' \notin DOMAIN config
                => config'[fullParamName'] = pvPair'.second) ]_vars

\* an accepted line has met an entry of another value under its path
C5_Witness ==
    /\ Accepted
    /\ fullParamName \in DOMAIN config
    /\ config[fullParamName] # pvPair.second

\* length of the leading run of spaces and tabs of a line
RunLen(l) ==
    IF \E i \in 1..Len(l) : l[i] \notin {SP, TAB}
    THEN (CHOOSE i \in 1..Len(l) :
            l[i] \notin {SP, TAB} /\ \A j \in 1..(i - 1) : l[j] \in {SP, TAB}) - 1
    ELSE Len(l)

\* the leading run holds both a space and a tab
MixedRun(l) ==
    \E i, j \in 1..RunLen(l) : l[i] = SP /\ l[j] = TAB

\* the leading run holds a tab somewhere before a space
TabBeforeSpace(l) ==
    \E i, j \in 1..RunLen(l) : i < j /\ l[i] = TAB /\ l[j] = SP

\* empty, white-space-only, comment, colon-less or colon-first line
SkippedLine(l) ==
    \/ l = <<>>
    \/ RunLen(l) = Len(l)
    \/ l[RunLen(l) + 1] = "#"
    \/ \A i \in 1..Len(l) : l[i] # ":"
    \/ l[RunLen(l) + 1] = ":"

\* C6 as stated: a line whose leading white-space run holds both spaces
\* and tabs, in either order, gets an empty name and changes nothing of
\* the stack, the path and the map.
C6_MixedRunRejected ==
    [][ ReadStep /\ MixedRun(line')
          => pvPair'.first = <<>> /\ UNCHANGED carried ]_vars

\* C6 (amended): a line whose leading white-space run holds a tab
\* somewhere before a space gets an empty name and changes nothing of the
\* stack, the path and the map; a run of spaces followed only by tabs is
\* not rejected: the line keeps its name and its padding counts the
\* spaces and the tabs.
C6_TabBeforeSpaceRejected ==
    [][ /\ (ReadStep /\ TabBeforeSpace(line')
              => pvPair'.first = <<>> /\ UNCHANGED carried)
        /\ (ReadStep /\ MixedRun(line') /\ ~TabBeforeSpace(line') /\ ~SkippedLine(line')
              => pvPair'.first # <<>> /\ currentPadding' = RunLen(line')) ]_vars

\* a tab-then-space line has been read while a frame was on the stack
C6_Witness ==
    /\ nread > 1
    /\ TabBeforeSpace(line)
    /\ Contains(line, <<":">>)
    /\ paddingHistory # <<>>
    /\ pvPair.first = <<>>

\* C7: an empty, white-space-only, comment, colon-less or colon-first
\* line leaves the stack, the path and the map as they are and the loop
\* goes on; line, pvPair and currentPadding are overwritten by the next
\* iteration before they are read, so the rest of the parse is that of
\* the document without the line.
C7_SkippedLineChangesNothing ==
    [][ ReadStep /\ SkippedLine(line')
          => UNCHANGED carried /\ pvPair'.first = <<>> /\ pc' = "loop" ]_vars

\* a comment line has been read while a frame was on the stack
C7_Witness ==
    /\ nread > 1
    /\ Contains(line, <<"#">>)
    /\ SkippedLine(line)
    /\ paddingHistory # <<>>
    /\ config # <<>>

\* the value token of the last line read, as parseLine keeps it
raw == pvPair.second.rawString

\* the first line of a document has been read and has a name
Parsed == nread = 1 /\ pvPair.first # <<>>

IsQuoted(t) == Len(t) > 2 /\ t[1] = QUOTE /\ t[Len(t)] = QUOTE

IsBracketed(t) == Len(t) >= 2 /\ t[1] = "[" /\ t[Len(t)] = "]"

\* a non-empty sequence of digits
IsDigits(t) == t # <<>> /\ \A i \in 1..Len(t) : t[i] \in Digits

\* digits with exactly one decimal point
IsDecimal(t) ==
    /\ \A i \in 1..Len(t) : t[i] \in Digits \cup {"."}
    /\ Cardinality({i \in 1..Len(t) : t[i] = "."}) = 1
    /\ \E i \in 1..Len(t) : t[i] \in Digits

\* the comma-separated elements of a text, each trimmed
RECURSIVE SplitElems(_)
SplitElems(t) ==
    LET n == FindChar(t, ",")
    IN  IF n = 0 THEN <<trimmWhiteSpaces(t)>>
        ELSE <<trimmWhiteSpaces(SubSeq(t, 1, n - 1))>>
                 \o SplitElems(SubSeq(t, n + 1, Len(t)))

\* the elements of a bracketed token
ElemsOf(t) == SplitElems(SubSeq(t, 2, Len(t) - 1))

\* the type and the value one element has on its own
ElemType(e) ==
    IF parseAsString(e).ok THEN type_STRING
    ELSE IF parseAsBoolean(e).ok THEN type_BOOLEAN
    ELSE IF parseAsFloat(e).ok THEN type_FLOAT
    ELSE IF parseAsInteger(e).ok THEN type_INTEGER
    ELSE type_NO_VAL

ElemVal(e) ==
    IF parseAsString(e).ok THEN parseAsString(e).val
    ELSE IF parseAsBoolean(e).ok THEN parseAsBoolean(e).val
    ELSE IF parseAsFloat(e).ok THEN parseAsFloat(e).val
    ELSE parseAsInteger(e).val

\* the element sequence of a value for a type
VecOf(v, t) ==
    IF t = type_STRING THEN v.stringVal
    ELSE IF t = type_BOOLEAN THEN v.boolVal
    ELSE IF t = type_FLOAT THEN v.floatVal
    ELSE v.intVal

ElemTypes == {type_STRING, type_BOOLEAN, type_FLOAT, type_INTEGER}

\* the value has the type t, the elements vec in the sequence of t and
\* nothing in the three other sequences
HoldsExactly(v, t, vec) ==
    /\ v.type = t
    /\ \A u \in ElemTypes : VecOf(v, u) = IF u = t THEN vec ELSE <<>>

\* C3: a digit sequence without a decimal point is an INTEGER of that
\* value, as a scalar and as each element of a bracketed array; a digit
\* sequence with a decimal point is a FLOAT.
C3_NumbersTypedByDecimalPoint ==
    Parsed =>
      /\ (IsDigits(raw) => HoldsExactly(pvPair.second, type_INTEGER, <<DecValue(raw)>>))
      /\ (IsDecimal(raw) => pvPair.second.type = type_FLOAT)
      /\ (IsBracketed(raw) /\ (\A k \in 1..Len(ElemsOf(raw)) : IsDigits(ElemsOf(raw)[k]))
            => HoldsExactly(pvPair.second, type_INTEGER,
                            [k \in 1..Len(ElemsOf(raw)) |-> DecValue(ElemsOf(raw)[k])]))

\* C4: when an element of a bracketed array has a type other than that of
\* the first element, the value has the type of the first element, holds
\* the elements in front of the mismatch in the sequence of that type and
\* holds nothing in the other sequences.
C4_MismatchKeepsPartialArray ==
    Parsed /\ IsBracketed(raw) /\ Len(raw) > 2 =>
      LET es == ElemsOf(raw)
      IN  \A k \in 2..Len(es) :
            ( /\ ElemType(es[1]) # type_NO_VAL
              /\ \A j \in 1..(k - 1) : ElemType(es[j]) = ElemType(es[1])
              /\ ElemType(es[k]) \notin {ElemType(es[1]), type_NO_VAL} )
            => HoldsExactly(pvPair.second, ElemType(es[1]),
                            [j \in 1..(k - 1) |-> ElemVal(es[j])])

\* C8: a value token of more than two characters that starts and ends
\* with a double quote is a STRING of one element, the token without its
\* first and last character, whatever lies between the quotes.
C8_QuotedTokenIsString ==
    Parsed /\ IsQuoted(raw)
      => HoldsExactly(pvPair.second, type_STRING, <<SubSeq(raw, 2, Len(raw) - 1)>>)

\* the interior of a quoted token holds TRUE, a number, a colon or opens
\* as an array, and the value is a string
C8_Witness ==
    /\ Parsed
    /\ IsQuoted(raw)
    /\ \/ Contains(raw, <<"T", "R", "U", "E">>)
       \/ Contains(raw, <<"1", ".", "5">>)
       \/ Contains(raw, <<":">>)
       \/ raw[2] = "["
    /\ pvPair.second.type = type_STRING
    /\ fullParamName \in DOMAIN config

\* C9: a non-empty value token that is neither quoted nor bracketed is
\* BOOLEAN true when it contains TRUE, and BOOLEAN false when it contains
\* FALSE and not TRUE, also when it holds a decimal point or digits.
C9_BooleanBySubstring ==
    Parsed /\ raw # <<>> /\ ~IsQuoted(raw) /\ ~IsBracketed(raw) =>
      /\ (Contains(raw, <<"T", "R", "U", "E">>)
            => HoldsExactly(pvPair.second, type_BOOLEAN, <<TRUE>>))
      /\ (Contains(raw, <<"F", "A", "L", "S", "E">>) /\ ~Contains(raw, <<"T", "R", "U", "E">>)
            => HoldsExactly(pvPair.second, type_BOOLEAN, <<FALSE>>))

\* a token with both FALSE and TRUE, or with TRUE and a number, is true
C9_Witness ==
    /\ Parsed
    /\ ~IsQuoted(raw) /\ ~IsBracketed(raw)
    /\ Contains(raw, <<"T", "R", "U", "E">>)
    /\ Contains(raw, <<"F", "A", "L", "S", "E">>) \/ Contains(raw, <<"1", ".", "5">>)
    /\ pvPair.second.boolVal = <<TRUE>>

\* the first element of a bracketed token is of no known type
NoFirstElement(t) ==
    Len(t) < 3 \/ ElemType(ElemsOf(t)[1]) = type_NO_VAL

\* a first line with a bracketed value without a parseable first element
\* has been read
EmptyArrayRead == Parsed /\ IsBracketed(raw) /\ NoFirstElement(raw)

\* C10: a bracketed value without a parseable first element is NO_VAL
\* with four empty element sequences and parseFile makes no entry for the
\* line; the line that follows it is processed and stored.
C10_EmptyArrayIsNoValue ==
    /\ [](EmptyArrayRead =>
            /\ pvPair.second.type = type_NO_VAL
            /\ \A u \in ElemTypes : VecOf(pvPair.second, u) = <<>>
            /\ config = <<>>
            /\ paddingHistory = <<>>)
    /\ [][EmptyArrayRead /\ ReadStep
            => /\ Accepted'
               /\ fullParamName' = pvPair'.first
               /\ DOMAIN config' = {fullParamName'}
               /\ config'[fullParamName'] = pvPair'.second]_vars

\* a bracketed token whose first element is of unknown type and whose
\* second element is a number has been read
C10_Witness ==
    /\ Parsed
    /\ IsBracketed(raw)
    /\ Len(raw) > 2
    /\ NoFirstElement(raw)
    /\ Len(ElemsOf(raw)) > 1
    /\ ElemType(ElemsOf(raw)[2]) = type_FLOAT
    /\ pvPair.second.type = type_NO_VAL

(***************************************************************************)
(* Determinism of parseFile.                                               *)
(***************************************************************************)
\* what the push and the insert make of the carried state b for the
\* accepted line of name first, value second and indentation w_padding
pushed(b, first, second, w_padding, name, map) ==
    <<Append(b.paddingHistory, w_padding),
      Append(b.paramLengths, 1 + Len(first)),
      name,
      insert(map, name, second)>>

\* the carried state the loop body leaves behind the accepted line when
\* back() of an empty vector reads b's word
bodyResult(b, first, second, w_padding, map) ==
    pushed(b, first, second, w_padding, appendName(b.fullParamName, first), map)

AllValued == \A i \in DOMAIN seen : seen[i].valued

\* the first such line is indented less than every later one
SingleRoot ==
    /\ seen # <<>>
    /\ \A i \in 2..Len(seen) : seen[i].padding > seen[1].padding

Max(S) == CHOOSE x \in S : \A y \in S : y <= x

\* the preceding lines of strictly smaller indentation than line i
Smaller(i) == {j \in 1..(i - 1) : seen[j].padding < seen[i].padding}

\* the parent of line i: the nearest of them, 0 when there is none
ParentOf(i) == IF Smaller(i) = {} THEN 0 ELSE Max(Smaller(i))

\* the names of the ancestor chain of line i and its own name, dot-joined
RECURSIVE PathOf(_)
PathUnder(i, parent) ==
    IF parent = 0
    THEN seen[i].name
    ELSE PathOf(parent) \o <<".">> \o seen[i].name

PathOf(i) == PathUnder(i, ParentOf(i))

\* no earlier line has the path of line i
FirstOfItsPath(i) == \A j \in 1..(i - 1) : PathOf(j) # PathOf(i)

\* C12: in a document in which every named line carries a value and the
\* first of them is indented strictly less than all later ones, the path
\* after a line is the dot-joined names of its ancestor chain followed by
\* its own name, the parent of a line being the nearest preceding line of
\* strictly smaller indentation; the keys of the map are exactly these
\* paths, and a line that is the first of its path is stored with its own
\* value.
C12_AncestorChain ==
    (SingleRoot /\ AllValued) =>
        /\ fullParamName = PathOf(Len(seen))
        /\ DOMAIN config = {PathOf(i) : i \in DOMAIN seen}
        /\ (Accepted /\ FirstOfItsPath(Len(seen))
              => config[fullParamName] = pvPair.second)

\* a root with a value and two sub-fields of equal indentation, the second
\* of them just stored as a sibling of the first
C12_Witness ==
    /\ SingleRoot
    /\ AllValued
    /\ Accepted
    /\ Len(seen) = 3
    /\ seen[2].padding = seen[3].padding
    /\ seen[2].name # seen[3].name
    /\ ParentOf(3) = 1

(***************************************************************************)
(* The stack of the rewind loop.                                           *)
(***************************************************************************)
\* C13: the rewind loop never reads the top of an empty stack: no line
\* makes it evaluate paddingHistory.back() on the emptied vector.
C13_BackOnNonEmpty == ~backOnEmpty

\* the number of lines accepted so far
AcceptedLines == Cardinality({i \in DOMAIN seen : seen[i].valued})

\* C14: after any line, paddingHistory and paramLengths have the same
\* length and the indentation widths in paddingHistory are strictly
\* increasing from the bottom of the stack to the top.
C14_StacksInStep ==
    /\ Len(paddingHistory) = Len(paramLengths)
    /\ \A i \in 1..(Len(paddingHistory) - 1) :
           paddingHistory[i] < paddingHistory[i + 1]

\* a stack of two frames left by a line that has popped a frame
C14_Witness ==
    /\ Accepted
    /\ Len(paddingHistory) = 2
    /\ AcceptedLines > Len(paddingHistory)
====
